---- MODULE Spec2Model ----
(***************************************************************************)
(* mdash documentation search (src/unnamed/part_000): the in-memory search *)
(* index built from the page DOM, the debounced substring query, the       *)
(* rendered result list with its keyboard selection, and the modal's       *)
(* open/close state; and the keyboard navigation of the documentation     *)
(* sidebar (src/js/docs-keyboard-nav.js): the list of navigable items, the *)
(* current index, the focus, the collapsible navigation groups and the     *)
(* highlight of the link of the section in view.                           *)
(*                                                                         *)
(* Text is a sequence of one-character strings, so that trim, toLowerCase, *)
(* substring and includes are computed the way the JavaScript computes     *)
(* them.                                                                   *)
(***************************************************************************)
EXTENDS Integers, Sequences, FiniteSets

VARIABLES
    dom,            \* the page: .doc-section containers, .sidebar-nav links, other ids
    searchIndex,    \* let searchIndex = []            (part_000:12)
    isOpen,         \* let isOpen = false              (part_000:16)
    modalOpen,      \* searchModal.classList has 'open'
    bodyOverflow,   \* document.body.style.overflow
    inputValue,     \* searchInput.value
    searchResults,  \* searchResults.innerHTML, as structure
    results,        \* handleSearch's local `results` of its last run (index positions)
    query,          \* handleSearch's local `query` of its last run
    timers,         \* the browser's pending timeouts: set of [id, remaining]
    timeout,        \* debounce's closure variable `timeout` (0: undefined)
    sinceInput,     \* ms since the last input event, saturating at the debounce delay
    runsSinceInput, \* handleSearch runs since the last input event (saturating at 2)
    burst,          \* input events of the current burst, each less than the debounce
                    \* delay after the one before (saturating at 2; 0: no event yet)
    afterClose,     \* "pending": closeSearch ran with a timer in flight; "ran": it then fired
    activeElement,  \* document.activeElement: "input" (searchInput), "other" (another
                    \* input, textarea or editable element), "nav" (an element of
                    \* the sidebar, see navFocus) or "page"
    navigated,      \* the last navigation of a result click (NoNav: none yet)
    sidebarEls,     \* the sidebar: its links and group titles in document order
    navItems,       \* let navItems = []              (docs-keyboard-nav.js:12)
    currentIndex,   \* let currentIndex = -1          (docs-keyboard-nav.js:13)
    navIndexOf,     \* dataset.navIndex of each element (NoIndex: not set)
    collapsed,      \* per .nav-group: its classList has 'collapsed'
    ariaExpanded,   \* per .nav-group: aria-expanded of its title ("none": not set)
    navFocus,       \* the sidebar element that has the focus while activeElement = "nav"
    listening,      \* the titles that got their own keydown and click listeners
    mainFocusDue,   \* the 300 ms timeout of activateCurrentItem is pending
    linkActive      \* the elements whose classList has 'nav-link-active'

navVars == <<sidebarEls, navItems, currentIndex, navIndexOf, collapsed, ariaExpanded,
             navFocus, listening, mainFocusDue, linkActive>>

vars == <<dom, searchIndex, isOpen, modalOpen, bodyOverflow, inputValue,
          searchResults, results, query, timers, timeout, sinceInput,
          runsSinceInput, burst, afterClose, activeElement, navigated, navVars>>

uiVars == <<isOpen, modalOpen, bodyOverflow, inputValue, searchResults, results,
            query, timers, timeout, sinceInput, runsSinceInput, burst, afterClose,
            activeElement, navigated>>

(***************************************************************************)
(* Bounds of the model.                                                    *)
(***************************************************************************)
MaxSections == 2    \* BuildSpec: .doc-section containers on a page
MaxLinks == 2       \* BuildSpec: .sidebar-nav links on a page
MaxIndex == 6       \* reindex() is not called on an index longer than this
MaxTimerIds == 2    \* timeout handles the browser hands out (reused once free)

(***************************************************************************)
(* Program constants.                                                      *)
(***************************************************************************)
ContentLimit == 500     \* content.trim().substring(0, 500)
ResultLimit == 10       \* .slice(0, 10)
DebounceDelay == 150    \* debounce(handleSearch, 150)
ExcerptLimit == 150     \* truncate(item.content, 150)

TickMs == DebounceDelay \div 2     \* granularity of the model's clock

(***************************************************************************)
(* Strings.                                                                *)
(***************************************************************************)
Min(a, b) == IF a <= b THEN a ELSE b
Max(a, b) == IF a >= b THEN a ELSE b

UpperChars == <<"A", "C", "F", "G", "I", "Q", "S", "U">>
LowerChars == <<"a", "c", "f", "g", "i", "q", "s", "u">>

\* String.prototype.toLowerCase, one character
LowerChar(c) ==
    IF \E i \in 1..Len(UpperChars) : UpperChars[i] = c
    THEN LowerChars[CHOOSE i \in 1..Len(UpperChars) : UpperChars[i] = c]
    ELSE c

\* String.prototype.toLowerCase
ToLowerCase(s) == [i \in 1..Len(s) |-> LowerChar(s[i])]

IsWhiteSpace(c) == c \in {" ", "\n", "\t"}

\* String.prototype.trim
Trim(s) ==
    LET keep == {i \in 1..Len(s) : ~IsWhiteSpace(s[i])}
    IN  IF keep = {} THEN <<>>
        ELSE SubSeq(s, CHOOSE i \in keep : \A j \in keep : i <= j,
                       CHOOSE i \in keep : \A j \in keep : i >= j)

\* String.prototype.substring(from, to), 0-based, to exclusive
Substring(s, from, to) == SubSeq(s, Min(from, Len(s)) + 1, Min(to, Len(s)))

\* String.prototype.includes
Includes(s, q) ==
    \E i \in 0..(Len(s) - Len(q)) : SubSeq(s, i + 1, i + Len(q)) = q

\* String.prototype.startsWith
StartsWith(s, p) == Len(s) >= Len(p) /\ SubSeq(s, 1, Len(p)) = p

(***************************************************************************)
(* The page.  A section is [id, heading, texts]: heading is NoHeading or   *)
(* the heading's textContent, texts the textContent of its p, li, td and   *)
(* .info-box elements.  A link is [href, text, group]: href is NoAttr or   *)
(* the attribute's value, group is NoGroup or the textContent of the       *)
(* .nav-group-title of the enclosing .nav-group.                           *)
(***************************************************************************)
NoHeading == <<"(no heading)">>      \* section.querySelector('h1, h2, h3') is null
NoAttr == <<"(no attribute)">>       \* link.getAttribute('href') is null
NoGroup == <<"(no group)">>          \* no enclosing .nav-group with a .nav-group-title
NoElement == 0                       \* a null element reference
OtherElement == -1                   \* an element of the page that is not a .doc-section

Section(id, heading, texts) == [id |-> id, heading |-> heading, texts |-> texts]
Link(href, text, group) == [href |-> href, text |-> text, group |-> group]

(***************************************************************************)
(* buildSearchIndex.                                                       *)
(***************************************************************************)
RECURSIVE ConcatTexts(_)
\* contentElements.forEach(el => { content += ' ' + el.textContent; })
ConcatTexts(texts) ==
    IF texts = <<>> THEN <<>>
    ELSE <<" ">> \o Head(texts) \o ConcatTexts(Tail(texts))

\* the links a.href = "#<id>" selects, in document order
LinksTo(d, id) ==
    {j \in 1..Len(d.links) : d.links[j].href = <<"#">> \o id}

\* findParentSection(element)
FindParentSection(d, sec) ==
    IF sec.id = <<>> THEN <<>>
    ELSE IF LinksTo(d, sec.id) = {} THEN <<>>
    ELSE LET navLink == d.links[CHOOSE j \in LinksTo(d, sec.id) :
                                    \A k \in LinksTo(d, sec.id) : j <= k]
         IN  IF navLink.group = NoGroup THEN <<>> ELSE Trim(navLink.group)

\* the record the section loop builds for the i-th .doc-section
SectionRecord(d, i) ==
    LET sec == d.sections[i]
    IN  [id      |-> sec.id,
         title   |-> IF sec.heading = NoHeading THEN <<>> ELSE Trim(sec.heading),
         content |-> Substring(Trim(ConcatTexts(sec.texts)), 0, ContentLimit),
         section |-> FindParentSection(d, sec),
         element |-> i]

\* the section loop without its `if (title || content)`
SectionKeptAlways(rec) == TRUE

\* if (title || content)
SectionKept(rec) == rec.title # <<>> \/ rec.content # <<>>

RECURSIVE IndexSections(_, _, _)
\* sections.forEach(section => { ... searchIndex.push(...) })
IndexSections(index, d, i) ==
    IF i > Len(d.sections) THEN index
    ELSE IndexSections(IF SectionKept(SectionRecord(d, i))
                       THEN Append(index, SectionRecord(d, i))
                       ELSE index, d, i + 1)

\* document.getElementById(id)
GetElementById(d, id) ==
    IF id = <<>> THEN NoElement
    ELSE IF \E i \in 1..Len(d.sections) : d.sections[i].id = id
    THEN CHOOSE i \in 1..Len(d.sections) :
            /\ d.sections[i].id = id
            /\ \A k \in 1..Len(d.sections) : d.sections[k].id = id => i <= k
    ELSE IF id \in d.otherIds THEN OtherElement
    ELSE NoElement

\* href && href.startsWith('#')
IsAnchorHref(href) == href # NoAttr /\ href # <<>> /\ StartsWith(href, <<"#">>)

\* the link loop without its check of the ids already indexed
ExistsNever(index, targetId) == FALSE

\* searchIndex.some(item => item.id === targetId)
Exists(index, targetId) == \E k \in 1..Len(index) : index[k].id = targetId

\* the record the link loop builds for a sidebar link
LinkRecord(d, link) ==
    [id      |-> Substring(link.href, 1, Len(link.href)),
     title   |-> Trim(link.text),
     content |-> <<>>,
     section |-> IF link.group = NoGroup THEN <<>> ELSE link.group,
     element |-> GetElementById(d, Substring(link.href, 1, Len(link.href)))]

RECURSIVE IndexLinks(_, _, _)
\* navItems.forEach(link => { ... if (!exists) searchIndex.push(...) })
IndexLinks(index, d, j) ==
    IF j > Len(d.links) THEN index
    ELSE IndexLinks(IF /\ IsAnchorHref(d.links[j].href)
                       /\ ~Exists(index, LinkRecord(d, d.links[j]).id)
                    THEN Append(index, LinkRecord(d, d.links[j]))
                    ELSE index, d, j + 1)

\* buildSearchIndex(): both loops push onto the existing searchIndex
BuildSearchIndex(index, d) == IndexLinks(IndexSections(index, d, 1), d, 1)

(***************************************************************************)
(* handleSearch and renderResults.                                         *)
(***************************************************************************)
\* a filter that looks at the title alone
MatchesTitleOnly(item, q) == Includes(ToLowerCase(item.title), q)

\* the filter callback of handleSearch
Matches(item, q) ==
    LET titleMatch == Includes(ToLowerCase(item.title), q)
        contentMatch == Includes(ToLowerCase(item.content), q)
    IN  titleMatch \/ contentMatch

RECURSIVE Filter(_, _, _)
\* searchIndex.filter(...): the positions of the matching records, in index order
Filter(index, q, k) ==
    IF k > Len(index) THEN <<>>
    ELSE (IF Matches(index[k], q) THEN <<k>> ELSE <<>>) \o Filter(index, q, k + 1)

\* no slice: every match is returned
SliceAll(seq, n) == seq

\* Array.prototype.slice(0, n)
Slice(seq, n) == SubSeq(seq, 1, Min(n, Len(seq)))

\* a query that is lowercased but not trimmed
NormalizeQueryNoTrim(raw) == ToLowerCase(raw)

\* searchInput.value.trim().toLowerCase()
NormalizeQuery(raw) == ToLowerCase(Trim(raw))

\* searchIndex.filter(...).slice(0, 10)
SearchResults(index, q) == Slice(Filter(index, q, 1), ResultLimit)

\* truncate(text, length)
Truncate(text, length) ==
    IF Len(text) <= length THEN text
    ELSE Substring(text, 0, length) \o <<".", ".", ".">>

(***************************************************************************)
(* escapeHtml, escapeRegex, the RegExp that highlightMatch builds, and     *)
(* highlightMatch.  Markup is a sequence of characters and tag tokens.     *)
(***************************************************************************)
RECURSIVE Flatten(_)
Flatten(seqs) == IF seqs = <<>> THEN <<>> ELSE Head(seqs) \o Flatten(Tail(seqs))

\* div.textContent = c; div.innerHTML: a text node is serialised with &, < and > escaped
EscapeHtmlChar(c) ==
    IF c = "&" THEN <<"&", "a", "m", "p", ";">>
    ELSE IF c = "<" THEN <<"&", "l", "t", ";">>
    ELSE IF c = ">" THEN <<"&", "g", "t", ";">>
    ELSE <<c>>

\* escapeHtml(text)
EscapeHtml(text) == Flatten([i \in 1..Len(text) |-> EscapeHtmlChar(text[i])])

\* the character class of escapeRegex: [.*+?^${}()|[\]\\]
RegexSpecials == {".", "*", "+", "?", "^", "$", "{", "}", "(", ")", "|", "[", "]", "\\"}

\* a replacement that leaves every character as it is
EscapeRegexCharNone(c) == <<c>>

\* the replacement '\\$&' of escapeRegex for one character
EscapeRegexChar(c) == IF c \in RegexSpecials THEN <<"\\", c>> ELSE <<c>>

\* escapeRegex(string)
EscapeRegex(string) == Flatten([i \in 1..Len(string) |-> EscapeRegexChar(string[i])])

\* new RegExp(pattern) raising SyntaxError
SyntaxError == <<"SyntaxError">>

\* a pattern outside the pattern language below (a quantified group, a class, ...)
Uncovered == <<"Uncovered">>

Quantifiers == {"*", "+", "?"}

\* The atoms of a pattern from position i on.  The pattern language covers
\* literals, escapes, '.', the greedy quantifiers * + ? on one character,
\* and groups that carry no quantifier.
RECURSIVE Atoms(_, _)
Atoms(p, i) ==
    IF i > Len(p) THEN <<>>
    ELSE IF p[i] = "\\" THEN
        IF i = Len(p) THEN <<[kind |-> "bad"]>>
        ELSE IF i + 2 <= Len(p) /\ p[i + 2] \in Quantifiers
        THEN <<[kind |-> "lit", ch |-> p[i + 1], quant |-> p[i + 2]]>> \o Atoms(p, i + 3)
        ELSE <<[kind |-> "lit", ch |-> p[i + 1], quant |-> "1"]>> \o Atoms(p, i + 2)
    ELSE IF p[i] \in Quantifiers THEN <<[kind |-> "bad"]>>
    ELSE IF p[i] = "(" THEN <<[kind |-> "open"]>> \o Atoms(p, i + 1)
    ELSE IF p[i] = ")" THEN
        IF i + 1 <= Len(p) /\ p[i + 1] \in Quantifiers THEN <<[kind |-> "uncovered"]>>
        ELSE <<[kind |-> "close"]>> \o Atoms(p, i + 1)
    ELSE IF p[i] \in {"^", "$", "{", "}", "|", "[", "]"} THEN <<[kind |-> "uncovered"]>>
    ELSE IF i + 1 <= Len(p) /\ p[i + 1] \in Quantifiers
    THEN <<[kind |-> IF p[i] = "." THEN "any" ELSE "lit", ch |-> p[i], quant |-> p[i + 1]]>>
             \o Atoms(p, i + 2)
    ELSE <<[kind |-> IF p[i] = "." THEN "any" ELSE "lit", ch |-> p[i], quant |-> "1"]>>
             \o Atoms(p, i + 1)

\* nesting depth after the atoms from k on, -1 once a ')' has no '(' to close
RECURSIVE Depth(_, _, _)
Depth(atoms, k, d) ==
    IF k > Len(atoms) THEN d
    ELSE IF atoms[k].kind = "open" THEN Depth(atoms, k + 1, d + 1)
    ELSE IF atoms[k].kind = "close" THEN
        IF d = 0 THEN -1 ELSE Depth(atoms, k + 1, d - 1)
    ELSE Depth(atoms, k + 1, d)

\* new RegExp(pattern, 'gi'): the compiled atoms, or SyntaxError
RegExp(pattern) ==
    LET atoms == Atoms(pattern, 1) IN
    IF \E k \in 1..Len(atoms) : atoms[k].kind = "bad" THEN SyntaxError
    ELSE IF \E k \in 1..Len(atoms) : atoms[k].kind = "uncovered" THEN Uncovered
    ELSE IF \E k \in 1..Len(atoms) :
                /\ atoms[k].kind = "open"
                /\ k < Len(atoms)
                /\ atoms[k + 1].kind = "bad" THEN SyntaxError
    ELSE IF Depth(atoms, 1, 0) # 0 THEN SyntaxError
    ELSE atoms

\* one atom against one character, under the flag i
AtomMatches(a, c) ==
    IF a.kind = "any" THEN c # "\n" ELSE LowerChar(c) = LowerChar(a.ch)

\* how many characters after the first i the atom matches in a row, at most cap
RECURSIVE Run(_, _, _, _)
Run(a, text, i, cap) ==
    IF cap = 0 \/ i >= Len(text) \/ ~AtomMatches(a, text[i + 1]) THEN 0
    ELSE 1 + Run(a, text, i + 1, cap - 1)

\* The end of the match of the atoms from k on that starts after the first i
\* characters of text, -1 if there is none; a quantifier takes as many
\* characters as it can and gives them back one by one.
RECURSIVE MatchAt(_, _, _, _)
RECURSIVE Greedy(_, _, _, _, _, _)
MatchAt(atoms, k, text, i) ==
    IF k > Len(atoms) THEN i
    ELSE IF atoms[k].kind \in {"open", "close"} THEN MatchAt(atoms, k + 1, text, i)
    ELSE IF atoms[k].quant = "1" THEN
        IF i < Len(text) /\ AtomMatches(atoms[k], text[i + 1])
        THEN MatchAt(atoms, k + 1, text, i + 1)
        ELSE -1
    ELSE Greedy(atoms, k, text, i,
                Run(atoms[k], text, i, IF atoms[k].quant = "?" THEN 1 ELSE Len(text)),
                IF atoms[k].quant = "+" THEN 1 ELSE 0)

Greedy(atoms, k, text, i, n, least) ==
    IF n < least THEN -1
    ELSE IF MatchAt(atoms, k + 1, text, i + n) # -1
    THEN MatchAt(atoms, k + 1, text, i + n)
    ELSE Greedy(atoms, k, text, i, n - 1, least)

\* text.replace(regex, '<mark>$1</mark>') under the flag g, from the first i characters on
RECURSIVE ReplaceAll(_, _, _)
ReplaceAll(atoms, text, i) ==
    LET e == MatchAt(atoms, 1, text, i)
        next == IF i = Len(text) THEN <<>>
                ELSE <<text[i + 1]>> \o ReplaceAll(atoms, text, i + 1)
    IN  IF e = -1 THEN next
        ELSE IF e = i THEN <<"<mark>", "</mark>">> \o next
        ELSE <<"<mark>">> \o SubSeq(text, i + 1, e) \o <<"</mark>">>
                 \o ReplaceAll(atoms, text, e)

\* highlightMatch(text, query)
HighlightMatch(text, q) ==
    IF q = <<>> THEN EscapeHtml(text)
    ELSE LET regex == RegExp(<<"(">> \o EscapeRegex(q) \o <<")">>) IN
         IF regex \in {SyntaxError, Uncovered} THEN regex
         ELSE ReplaceAll(regex, EscapeHtml(text), 0)

\* searchResults.innerHTML = ''
Blank == [kind |-> "blank", query |-> <<>>, items |-> <<>>]

\* the .search-empty block naming the query
EmptyState(q) == [kind |-> "empty", query |-> EscapeHtml(q), items |-> <<>>]

\* one a.search-result-item of renderResults
ResultItem(item, index, q) ==
    [href        |-> <<"#">> \o item.id,
     selected    |-> (index = 0),
     index       |-> index,
     section     |-> item.section,
     title       |-> item.title,
     excerpt     |-> Truncate(item.content, ExcerptLimit),
     sectionHtml |-> EscapeHtml(item.section),
     titleHtml   |-> HighlightMatch(item.title, q),
     excerptHtml |-> IF item.content = <<>> THEN <<>>
                     ELSE HighlightMatch(Truncate(item.content, ExcerptLimit), q)]

\* the template of renderResults raised an error: nothing is written
RenderError == [kind |-> "error", query |-> <<>>, items |-> <<>>]

\* the markup of an item could not be built
Throws(item) ==
    \/ item.titleHtml \in {SyntaxError, Uncovered}
    \/ item.excerptHtml \in {SyntaxError, Uncovered}

\* results.map(...) of renderResults
RenderItems(index, res, q) ==
    [n \in 1..Len(res) |-> ResultItem(index[res[n]], n - 1, q)]

\* a renderResults without the empty state
RenderResultsNoEmptyState(index, res, q) ==
    [kind  |-> "items",
     query |-> q,
     items |-> RenderItems(index, res, q)]

\* renderResults(results, query)
RenderResults(index, res, q) ==
    IF Len(res) = 0 THEN EmptyState(q)
    ELSE LET items == RenderItems(index, res, q) IN
         IF \E n \in 1..Len(res) : Throws(items[n]) THEN RenderError
         ELSE [kind |-> "items", query |-> q, items |-> items]

\* handleSearch(): what it leaves in searchResults
HandleSearchRender(index, raw) ==
    IF NormalizeQuery(raw) = <<>> THEN Blank
    ELSE RenderResults(index, SearchResults(index, NormalizeQuery(raw)),
                       NormalizeQuery(raw))

\* handleSearch(): its local `results` (empty when it returns early)
HandleSearchResults(index, raw) ==
    IF NormalizeQuery(raw) = <<>> THEN <<>>
    ELSE SearchResults(index, NormalizeQuery(raw))

(***************************************************************************)
(* handleKeyNavigation.                                                    *)
(***************************************************************************)
\* a lookup that takes the first result whatever is selected
SelectedPosFirst(items) == IF Len(items) > 0 THEN 1 ELSE 0

\* searchResults.querySelector('.search-result-item.selected'): its position, 0 if none
SelectedPos(items) ==
    IF \E n \in 1..Len(items) : items[n].selected
    THEN CHOOSE n \in 1..Len(items) :
            items[n].selected /\ \A m \in 1..Len(items) : items[m].selected => n <= m
    ELSE 0

\* selected ? parseInt(selected.dataset.index) : -1
SelectedIndex(items) ==
    IF SelectedPos(items) = 0 THEN -1 ELSE items[SelectedPos(items)].index

\* ArrowDown without the clamp to the last result
ArrowDownIndexUnclamped(selectedIndex, length) == selectedIndex + 1

\* Math.min(selectedIndex + 1, items.length - 1)
ArrowDownIndex(selectedIndex, length) == Min(selectedIndex + 1, length - 1)

\* Math.max(selectedIndex - 1, 0)
ArrowUpIndex(selectedIndex) == Max(selectedIndex - 1, 0)

\* items.forEach((item, i) => item.classList.toggle('selected', i === selectedIndex))
Select(items, selectedIndex) ==
    [n \in 1..Len(items) |-> [items[n] EXCEPT !.selected = (n - 1 = selectedIndex)]]

(***************************************************************************)
(* Pages and input texts the model runs on.                                *)
(***************************************************************************)
\* a guide page: two sections, a link to one of them and a link to '#faq'
PageGuide ==
    [sections |-> <<Section(<<"i", "n">>, <<"I", "n", "t", "r", "o">>,
                            << <<"U", "s", "e", " ", "i", "t">> >>),
                    Section(<<"s", "t">>, <<"I", "n", "s", "t">>,
                            << <<"r", "u", "n">>, <<"n", "o", "w">> >>)>>,
     links    |-> <<Link(<<"#", "s", "t">>, <<" ", "I", "n", "s", "t", "\n">>, <<"G", " ">>),
                    Link(<<"#", "f", "a", "q">>, <<"F", "A", "Q">>, NoGroup)>>,
     otherIds |-> {}]

\* six sections that all mention "cfg"
PageConfig ==
    [sections |-> <<Section(<<"c", "1">>, <<"A">>, << <<"c", "f", "g">> >>),
                    Section(<<"c", "2">>, <<"b">>, << <<"C", "f", "g">> >>),
                    Section(<<"c", "3">>, NoHeading, << <<"a", " ">>, <<"c", "f", "g">> >>),
                    Section(<<>>, <<"C", "F", "G">>, <<>>),
                    Section(<<"c", "5">>, <<"a", "b">>, << <<"x", "c", "f", "g", "x">> >>),
                    Section(<<"c", "5">>, <<"c", "f", "g">>, << <<"b">> >>)>>,
     links    |-> <<Link(<<"#", "c", "2">>, <<"b">>, <<"G">>)>>,
     otherIds |-> {}]

\* a page with missing ids, headings and text, blank and foreign links
PageOdd ==
    [sections |-> <<Section(<<>>, NoHeading, << <<"a">> >>),
                    Section(<<"q">>, <<" ">>, << <<" ">>, <<"\n">> >>),
                    Section(<<>>, <<"A", " ", "b">>, <<>>),
                    Section(<<"b">>, <<"b">>, << <<"a">>, <<"A", "b">> >>)>>,
     links    |-> <<Link(NoAttr, <<"a">>, NoGroup),
                    Link(<<"#", "b">>, <<"c">>, <<"G">>),
                    Link(<<"#", "q">>, <<" ">>, NoGroup),
                    Link(<<"#", "u">>, <<"a", "b">>, <<"G">>),
                    Link(<<"#">>, <<"a">>, <<"G">>),
                    Link(<<"#", "u">>, <<"z", "z">>, NoGroup),
                    Link(<<"/", "x">>, <<"a">>, NoGroup)>>,
     otherIds |-> {<<"u">>}]

Pages == {PageGuide, PageConfig, PageOdd}

\* what the user may have in the search input after an input event
Inputs ==
    {<<>>, <<" ">>, <<"a">>, <<" ", "C", "F", "G", " ">>, <<"i", "n">>,
     <<"f", "a", "q">>, <<"z", "z">>}

NoNav == [href |-> <<>>, outcome |-> "never"]

(***************************************************************************)
(* Sidebar keyboard navigation (src/js/docs-keyboard-nav.js).              *)
(*                                                                         *)
(* The sidebar holds links a[href^="#"] and .nav-group-title elements; a   *)
(* .nav-group has one title and its links inside .nav-group-links, which   *)
(* the style sheet of the script hides while the group is collapsed.       *)
(* Scrolling and the history are outside the state of the model.           *)
(***************************************************************************)
NoNavGroup == 0     \* item.closest('.nav-group') is null
NoIndex == -1       \* dataset.navIndex is undefined: parseInt gives NaN

\* the elements a sidebar is made of
NavElements ==
    <<[kind |-> "title", group |-> 1, hasTarget |-> FALSE, href |-> ""],
      [kind |-> "link",  group |-> 1, hasTarget |-> TRUE, href |-> "#s1"],
      [kind |-> "title", group |-> 2, hasTarget |-> FALSE, href |-> ""],
      [kind |-> "link",  group |-> 2, hasTarget |-> TRUE, href |-> "#s2"],
      [kind |-> "link",  group |-> NoNavGroup, hasTarget |-> FALSE, href |-> "#s3"]>>

NavIds == 1..Len(NavElements)

\* a focusable element of the sidebar that is no navigable item
SidebarOther == Len(NavElements) + 1

NavGroups == {NavElements[e].group : e \in NavIds} \ {NoNavGroup}

\* the sidebars of the model: five items, two items after a change, none
Sidebars == {<<1, 2, 3, 4, 5>>, <<3, 4>>, <<>>}

\* the state of the script for a sidebar without navigable items
NavOff ==
    /\ sidebarEls = <<>>
    /\ navItems = <<>>
    /\ currentIndex = -1
    /\ navIndexOf = [e \in NavIds |-> NoIndex]
    /\ collapsed = [g \in NavGroups |-> FALSE]
    /\ ariaExpanded = [g \in NavGroups |-> "none"]
    /\ navFocus = SidebarOther
    /\ listening = {}
    /\ mainFocusDue = FALSE
    /\ linkActive = {}

(***************************************************************************)
(* The state after init(): the index built, the modal created and closed.  *)
(***************************************************************************)
InitUi ==
    /\ isOpen = FALSE
    /\ modalOpen = FALSE
    /\ bodyOverflow = ""
    /\ inputValue = <<>>
    /\ searchResults = Blank
    /\ results = <<>>
    /\ query = <<>>
    /\ timers = {}
    /\ timeout = 0
    /\ sinceInput = DebounceDelay
    /\ runsSinceInput = 0
    /\ burst = 0
    /\ afterClose = "none"
    /\ activeElement = "page"
    /\ navigated = NoNav

Init ==
    /\ dom \in Pages
    /\ searchIndex = BuildSearchIndex(<<>>, dom)
    /\ InitUi
    /\ NavOff

(***************************************************************************)
(* Operations.                                                             *)
(***************************************************************************)
\* window.mdashSearch.reindex = buildSearchIndex
Reindex ==
    /\ Len(searchIndex) <= MaxIndex
    /\ searchIndex' = BuildSearchIndex(searchIndex, dom)
    /\ UNCHANGED <<navVars, dom, uiVars>>

\* an openSearch that also empties the index
OpenSearchResetsIndex ==
    /\ isOpen' = TRUE
    /\ modalOpen' = TRUE
    /\ inputValue' = <<>>
    /\ searchResults' = Blank
    /\ activeElement' = "input"
    /\ bodyOverflow' = "hidden"
    /\ searchIndex' = <<>>
    /\ UNCHANGED <<navVars, dom, results, query, timers, timeout, sinceInput,
                   runsSinceInput, burst, afterClose, navigated>>

\* openSearch()
OpenSearch ==
    /\ isOpen' = TRUE
    /\ modalOpen' = TRUE
    /\ inputValue' = <<>>
    /\ searchResults' = Blank
    /\ activeElement' = "input"
    /\ bodyOverflow' = "hidden"
    /\ UNCHANGED <<navVars, dom, searchIndex, results, query, timers, timeout, sinceInput,
                   runsSinceInput, burst, afterClose, navigated>>

\* a closeSearch that also clears the pending timeout
CloseSearchCancels ==
    /\ isOpen' = FALSE
    /\ modalOpen' = FALSE
    /\ bodyOverflow' = ""
    /\ timers' = {}
    /\ afterClose' = afterClose
    /\ UNCHANGED <<navVars, dom, searchIndex, inputValue, searchResults, results, query,
                   timeout, sinceInput, runsSinceInput, burst, activeElement>>

\* a closeSearch that leaves the scroll lock of the body in place
CloseSearchKeepsLock ==
    /\ isOpen' = FALSE
    /\ modalOpen' = FALSE
    /\ afterClose' = IF timers # {} /\ afterClose = "none" THEN "pending" ELSE afterClose
    /\ UNCHANGED <<navVars, dom, searchIndex, inputValue, searchResults, results, query,
                   timers, timeout, sinceInput, runsSinceInput, burst, activeElement,
                   bodyOverflow>>

\* closeSearch()
CloseSearch ==
    /\ isOpen' = FALSE
    /\ modalOpen' = FALSE
    /\ bodyOverflow' = ""
    /\ afterClose' = IF timers # {} /\ afterClose = "none" THEN "pending" ELSE afterClose
    /\ UNCHANGED <<navVars, dom, searchIndex, inputValue, searchResults, results, query,
                   timers, timeout, sinceInput, runsSinceInput, burst, activeElement>>

\* Cmd/Ctrl+K, the sidebar's search trigger, or window.mdashSearch.open()
Open == OpenSearch

\* '/' pressed while no input is focused
KeySlash ==
    /\ activeElement = "page"
    /\ OpenSearch

\* Escape pressed while the search is open
KeyEscape ==
    /\ isOpen
    /\ CloseSearch
    /\ navigated' = navigated

\* a click on the backdrop of the open modal
BackdropClick ==
    /\ isOpen
    /\ CloseSearch
    /\ navigated' = navigated

\* window.mdashSearch.close()
Close ==
    /\ CloseSearch
    /\ navigated' = navigated

\* the user moves the focus: into the visible search input, to another field, to the page
Focus(e) ==
    /\ e # activeElement
    /\ e = "input" => isOpen
    /\ activeElement' = e
    /\ UNCHANGED <<navVars, dom, searchIndex, isOpen, modalOpen, bodyOverflow, inputValue,
                   searchResults, results, query, timers, timeout, sinceInput,
                   runsSinceInput, burst, afterClose, navigated>>

(***************************************************************************)
(* debounce(handleSearch, 150) and the browser's timers.                   *)
(***************************************************************************)
TimerIds(ts) == {t.id : t \in ts}

\* clearTimeout(id)
ClearTimeout(ts, id) == {t \in ts : t.id # id}

\* the handles setTimeout may return: those of no pending timeout
FreeTimerIds(ts) == (1..MaxTimerIds) \ TimerIds(ts)

\* the handle setTimeout returns
NewTimerId(ts) ==
    CHOOSE id \in FreeTimerIds(ts) : \A other \in FreeTimerIds(ts) : id <= other

\* setTimeout(callback, delay)
SetTimeout(ts, delay) == ts \cup {[id |-> NewTimerId(ts), remaining |-> delay]}

\* a debounce that clears the pending timeout and schedules none
DebouncedClearOnly(ts, handle) ==
    [timers |-> ClearTimeout(ts, handle), timeout |-> handle]

\* a debounce that sets its timeout without clearing the one before
DebouncedNoClear(ts, handle) ==
    [timers  |-> SetTimeout(ts, DebounceDelay),
     timeout |-> NewTimerId(ts)]

\* the debounced function: clearTimeout(timeout); timeout = setTimeout(..., delay)
Debounced(ts, handle) ==
    [timers  |-> SetTimeout(ClearTimeout(ts, handle), DebounceDelay),
     timeout |-> NewTimerId(ClearTimeout(ts, handle))]

\* an 'input' event of searchInput: the user has changed its text to v
InputEvent(v) ==
    /\ isOpen
    /\ activeElement = "input"
    /\ v # inputValue
    /\ FreeTimerIds(timers) # {}
    /\ inputValue' = v
    /\ timers' = Debounced(timers, timeout).timers
    /\ timeout' = Debounced(timers, timeout).timeout
    /\ sinceInput' = 0
    /\ runsSinceInput' = 0
    /\ burst' = IF burst > 0 /\ sinceInput < DebounceDelay THEN Min(2, burst + 1) ELSE 1
    /\ afterClose' = "none"
    /\ UNCHANGED <<navVars, dom, searchIndex, isOpen, modalOpen, bodyOverflow, searchResults,
                   results, query, activeElement, navigated>>

\* TickMs of time pass
Tick ==
    /\ sinceInput < DebounceDelay \/ \E t \in timers : t.remaining > 0
    /\ timers' = {[t EXCEPT !.remaining = Max(0, t.remaining - TickMs)] : t \in timers}
    /\ sinceInput' = Min(DebounceDelay, sinceInput + TickMs)
    /\ UNCHANGED <<navVars, dom, searchIndex, isOpen, modalOpen, bodyOverflow, inputValue,
                   searchResults, results, query, timeout, runsSinceInput, burst, afterClose,
                   activeElement, navigated>>

\* a timeout whose delay has passed runs its callback: handleSearch()
TimerFires ==
    \E t \in timers :
        /\ t.remaining = 0
        /\ timers' = timers \ {t}
        /\ query' = NormalizeQuery(inputValue)
        /\ results' = HandleSearchResults(searchIndex, inputValue)
        /\ searchResults' =
            LET rendered == HandleSearchRender(searchIndex, inputValue) IN
            IF rendered = RenderError THEN searchResults ELSE rendered
        /\ runsSinceInput' = Min(2, runsSinceInput + 1)
        /\ afterClose' = IF afterClose = "pending" THEN "ran" ELSE afterClose
        /\ UNCHANGED <<navVars, dom, searchIndex, isOpen, modalOpen, bodyOverflow, inputValue,
                       timeout, sinceInput, burst, activeElement, navigated>>

(***************************************************************************)
(* Keys in the search input and clicks on results.                         *)
(***************************************************************************)
\* document.querySelector(href), then scrollIntoView and history.pushState
Navigate(d, href) ==
    IF href = <<>> THEN [href |-> href, outcome |-> "none"]
    ELSE IF Substring(href, 1, Len(href)) = <<>> THEN [href |-> href, outcome |-> "threw"]
    ELSE IF GetElementById(d, Substring(href, 1, Len(href))) # NoElement
    THEN [href |-> href, outcome |-> "scrolled"]
    ELSE [href |-> href, outcome |-> "none"]

\* the click listener of the n-th rendered result
ClickHandler(n) ==
    /\ CloseSearch
    /\ navigated' = Navigate(dom, searchResults.items[n].href)

\* ArrowDown in the search input
KeyArrowDown ==
    /\ isOpen
    /\ activeElement = "input"
    /\ searchResults' =
        IF Len(searchResults.items) = 0 THEN searchResults
        ELSE [searchResults EXCEPT !.items =
                Select(@, ArrowDownIndex(SelectedIndex(@), Len(@)))]
    /\ UNCHANGED <<navVars, dom, searchIndex, isOpen, modalOpen, bodyOverflow, inputValue,
                   results, query, timers, timeout, sinceInput, runsSinceInput, burst,
                   afterClose, activeElement, navigated>>

\* ArrowUp in the search input
KeyArrowUp ==
    /\ isOpen
    /\ activeElement = "input"
    /\ searchResults' =
        IF Len(searchResults.items) = 0 THEN searchResults
        ELSE [searchResults EXCEPT !.items = Select(@, ArrowUpIndex(SelectedIndex(@)))]
    /\ UNCHANGED <<navVars, dom, searchIndex, isOpen, modalOpen, bodyOverflow, inputValue,
                   results, query, timers, timeout, sinceInput, runsSinceInput, burst,
                   afterClose, activeElement, navigated>>

\* Enter in the search input: selected.click()
KeyEnter ==
    /\ isOpen
    /\ activeElement = "input"
    /\ Len(searchResults.items) # 0
    /\ SelectedPos(searchResults.items) # 0
    /\ ClickHandler(SelectedPos(searchResults.items))

\* the user clicks the n-th result of the open modal
ClickResult(n) ==
    /\ isOpen
    /\ ClickHandler(n)

Next ==
    \/ Reindex
    \/ Open
    \/ KeySlash
    \/ KeyEscape
    \/ BackdropClick
    \/ Close
    \/ \E e \in {"input", "other", "page"} : Focus(e)
    \/ \E v \in Inputs : InputEvent(v)
    \/ Tick
    \/ TimerFires
    \/ KeyArrowDown
    \/ KeyArrowUp
    \/ KeyEnter
    \/ \E n \in 1..Len(searchResults.items) : ClickResult(n)

Spec == Init /\ [][Next]_vars

(***************************************************************************)
(* The index builder alone, over every page of up to MaxSections sections  *)
(* and MaxLinks links drawn from the pools below.                          *)
(***************************************************************************)
SectionPool ==
    {Section(<<"a">>, <<"A", "b">>, << <<"b", "a">> >>),
     Section(<<>>, NoHeading, << <<"a">> >>),
     Section(<<"b">>, <<" ">>, << <<" ">> >>),
     Section(<<"a">>, <<"b">>, <<>>),
     Section(<<>>, <<"A">>, << <<"b">>, <<"A">> >>)}

LinkPool ==
    {Link(<<"#", "a">>, <<" ", "A", " ">>, <<"G">>),
     Link(<<"#", "b">>, <<"b">>, NoGroup),
     Link(<<"#", "b">>, <<" ">>, <<"G">>),
     Link(NoAttr, <<"a">>, NoGroup),
     Link(<<"#">>, <<"a">>, <<"G">>)}

RECURSIVE SeqsUpTo(_, _)
\* the sequences over S of length at most n
SeqsUpTo(S, n) ==
    IF n = 0 THEN {<<>>}
    ELSE SeqsUpTo(S, n - 1)
            \cup {Append(q, x) : q \in {p \in SeqsUpTo(S, n - 1) : Len(p) = n - 1}, x \in S}

BuildInit ==
    /\ dom \in [sections : SeqsUpTo(SectionPool, MaxSections),
                links    : SeqsUpTo(LinkPool, MaxLinks),
                otherIds : {{}}]
    /\ searchIndex = BuildSearchIndex(<<>>, dom)
    /\ InitUi
    /\ NavOff

BuildNext == Reindex

BuildSpec == BuildInit /\ [][BuildNext]_vars

(***************************************************************************)
(* Sidebar keyboard navigation: focus, index, groups.                      *)
(***************************************************************************)
IsTitle(e) == e \in NavIds /\ NavElements[e].kind = "title"

IsLink(e) == e \in NavIds /\ NavElements[e].kind = "link"

\* group.querySelector('.nav-group-title')
TitleOf(g) == CHOOSE e \in NavIds : IsTitle(e) /\ NavElements[e].group = g

\* the element is in the sidebar of the document
Attached(e, els) == \E i \in 1..Len(els) : els[i] = e

\* .nav-group.collapsed .nav-group-links { display: none }
Visible(e, c) ==
    IF e = SidebarOther \/ IsTitle(e) THEN TRUE
    ELSE IF NavElements[e].group = NoNavGroup THEN TRUE
    ELSE ~c[NavElements[e].group]

\* element.focus() takes effect: a link, or a title that was given a tabindex
CanFocus(e, els, c, idx) ==
    IF e = SidebarOther THEN TRUE
    ELSE /\ Attached(e, els)
         /\ Visible(e, c)
         /\ IsLink(e) \/ idx[e] # NoIndex

\* navItems[index]: the element, or NoElement when undefined
ItemAt(items, index) ==
    IF index >= 0 /\ index < Len(items) THEN items[index + 1] ELSE NoElement

\* collectNavItems(): the positions written to dataset.navIndex
CollectIndex(els, idx) ==
    [e \in NavIds |->
        IF Attached(e, els) THEN (CHOOSE i \in 1..Len(els) : els[i] = e) - 1 ELSE idx[e]]

\* The focus and the index after element.focus() with currentIndex = ci:
\* the focusin listener stores the element's dataset.navIndex.
FocusElement(e, ci, c) ==
    IF CanFocus(e, sidebarEls, c, navIndexOf) /\ ~(activeElement = "nav" /\ navFocus = e)
    THEN [active |-> "nav", focus |-> e,
          index |-> IF e # SidebarOther /\ navIndexOf[e] # NoIndex THEN navIndexOf[e] ELSE ci]
    ELSE [active |-> activeElement, focus |-> navFocus, index |-> ci]

\* focusItem(index) once currentIndex = index was assigned
FocusItem(index, c) ==
    IF ItemAt(navItems, index) # NoElement
    THEN FocusElement(ItemAt(navItems, index), index, c)
    ELSE [active |-> activeElement, focus |-> navFocus, index |-> index]

\* the variables of the search widget that the sidebar navigation leaves alone
navFrame == <<dom, searchIndex, isOpen, modalOpen, bodyOverflow, inputValue, searchResults,
              results, query, timers, timeout, sinceInput, runsSinceInput, burst,
              afterClose, navigated>>

\* the effect of a function that moves the index and the focus only
Moved(f) ==
    /\ activeElement' = f.active
    /\ navFocus' = f.focus
    /\ currentIndex' = f.index
    /\ UNCHANGED <<navFrame, sidebarEls, navItems, navIndexOf, collapsed, ariaExpanded,
                   listening, mainFocusDue, linkActive>>

\* navigateNext()
NavigateNext ==
    /\ currentIndex < Len(navItems) - 1
    /\ Moved(FocusItem(currentIndex + 1, collapsed))

\* navigatePrev()
NavigatePrev ==
    /\ currentIndex > 0
    /\ Moved(FocusItem(currentIndex - 1, collapsed))

\* navigateFirst()
NavigateFirst == Moved(FocusItem(0, collapsed))

\* navigateLast()
NavigateLast == Moved(FocusItem(Len(navItems) - 1, collapsed))

\* focusSidebar()
FocusSidebar == Moved(FocusItem(IF currentIndex < 0 THEN 0 ELSE currentIndex, collapsed))

\* toggleNavGroup(title) on the classes c and the attributes a
ToggleNavGroup(title, c, a) ==
    IF NavElements[title].group = NoNavGroup THEN [collapsed |-> c, aria |-> a]
    ELSE [collapsed |-> [c EXCEPT ![NavElements[title].group] = ~@],
          aria      |-> [a EXCEPT ![NavElements[title].group] =
                            IF c[NavElements[title].group] THEN "true" ELSE "false"]]

\* activateCurrentItem() on the classes c and the attributes a
ActivateCurrentItem(c, a) ==
    IF ItemAt(navItems, currentIndex) = NoElement
    THEN [collapsed |-> c, aria |-> a, due |-> mainFocusDue]
    ELSE IF IsLink(ItemAt(navItems, currentIndex))
    THEN [collapsed |-> c, aria |-> a,
          due |-> mainFocusDue \/ NavElements[ItemAt(navItems, currentIndex)].hasTarget]
    ELSE [collapsed |-> ToggleNavGroup(ItemAt(navItems, currentIndex), c, a).collapsed,
          aria      |-> ToggleNavGroup(ItemAt(navItems, currentIndex), c, a).aria,
          due       |-> mainFocusDue]

\* the keydown listener of a title: Enter or Space
TitleKeydown(title, c, a) ==
    IF IsTitle(title) /\ title \in listening THEN ToggleNavGroup(title, c, a)
    ELSE [collapsed |-> c, aria |-> a]

\* handleSidebarKeydown for Enter or Space on target, after the target's own listeners
SidebarEnter(target, c, a) ==
    IF IsLink(target) THEN [collapsed |-> c, aria |-> a, due |-> mainFocusDue]
    ELSE ActivateCurrentItem(c, a)

\* Enter or Space pressed on the focused element of the sidebar: the keydown
\* event runs the listeners of the target and then, bubbling, the sidebar's
KeyNavEnter ==
    /\ activeElement = "nav"
    /\ collapsed' =
        SidebarEnter(navFocus, TitleKeydown(navFocus, collapsed, ariaExpanded).collapsed,
                     TitleKeydown(navFocus, collapsed, ariaExpanded).aria).collapsed
    /\ ariaExpanded' =
        SidebarEnter(navFocus, TitleKeydown(navFocus, collapsed, ariaExpanded).collapsed,
                     TitleKeydown(navFocus, collapsed, ariaExpanded).aria).aria
    /\ mainFocusDue' =
        SidebarEnter(navFocus, TitleKeydown(navFocus, collapsed, ariaExpanded).collapsed,
                     TitleKeydown(navFocus, collapsed, ariaExpanded).aria).due
    /\ UNCHANGED <<navFrame, activeElement, sidebarEls, navItems, currentIndex, navIndexOf,
                   navFocus, listening, linkActive>>

\* the 300 ms timeout of activateCurrentItem: main.focus(), which moves the
\* focus when the page's main element can take it
MainFocusTimer ==
    /\ mainFocusDue
    /\ mainFocusDue' = FALSE
    /\ activeElement' \in {activeElement, "page"}
    /\ UNCHANGED <<navFrame, sidebarEls, navItems, currentIndex, navIndexOf, collapsed,
                   ariaExpanded, navFocus, listening, linkActive>>

\* the user clicks a title of the sidebar: the focus moves, then the click listener runs
ClickTitle(e) ==
    /\ ~modalOpen
    /\ IsTitle(e)
    /\ Attached(e, sidebarEls)
    /\ IF CanFocus(e, sidebarEls, collapsed, navIndexOf)
       THEN /\ activeElement' = FocusElement(e, currentIndex, collapsed).active
            /\ navFocus' = FocusElement(e, currentIndex, collapsed).focus
            /\ currentIndex' = FocusElement(e, currentIndex, collapsed).index
       ELSE /\ activeElement' = "page"
            /\ UNCHANGED <<navFocus, currentIndex>>
    /\ collapsed' = TitleKeydown(e, collapsed, ariaExpanded).collapsed
    /\ ariaExpanded' = TitleKeydown(e, collapsed, ariaExpanded).aria
    /\ UNCHANGED <<navFrame, sidebarEls, navItems, navIndexOf, listening, mainFocusDue,
                   linkActive>>

\* expandCurrentGroup(), on ArrowRight or l in the sidebar
KeyNavRight ==
    /\ activeElement = "nav"
    /\ LET item == ItemAt(navItems, currentIndex) IN
       IF item # NoElement /\ NavElements[item].group # NoNavGroup
             /\ collapsed[NavElements[item].group]
       THEN /\ collapsed' = [collapsed EXCEPT ![NavElements[item].group] = FALSE]
            /\ ariaExpanded' = [ariaExpanded EXCEPT ![NavElements[item].group] = "true"]
       ELSE UNCHANGED <<collapsed, ariaExpanded>>
    /\ UNCHANGED <<navFrame, activeElement, sidebarEls, navItems, currentIndex, navIndexOf,
                   navFocus, listening, mainFocusDue, linkActive>>

\* an index that is 0 whatever the title's dataset.navIndex
IndexAlwaysZero(title, idx) == 0

\* parseInt(title.dataset.navIndex) || 0
IndexOrZero(title, idx) == IF idx[title] = NoIndex THEN 0 ELSE idx[title]

\* collapseCurrentGroup()
CollapseCurrentGroup ==
    LET item == ItemAt(navItems, currentIndex) IN
    IF item # NoElement /\ NavElements[item].group # NoNavGroup
          /\ ~collapsed[NavElements[item].group]
    THEN LET g == NavElements[item].group
             c == [collapsed EXCEPT ![g] = TRUE]
             f == FocusElement(TitleOf(g), currentIndex, c)
         IN  /\ collapsed' = c
             /\ ariaExpanded' = [ariaExpanded EXCEPT ![g] = "false"]
             /\ currentIndex' = IndexOrZero(TitleOf(g), navIndexOf)
             /\ navFocus' = f.focus
             /\ activeElement' =
                   IF f.active = "nav" /\ ~Visible(f.focus, c) THEN "page" ELSE f.active
    ELSE UNCHANGED <<collapsed, ariaExpanded, currentIndex, navFocus, activeElement>>

\* ArrowLeft or h in the sidebar
KeyNavLeft ==
    /\ activeElement = "nav"
    /\ CollapseCurrentGroup
    /\ UNCHANGED <<navFrame, sidebarEls, navItems, navIndexOf, listening, mainFocusDue,
                   linkActive>>

\* ArrowDown or j, ArrowUp or k, Home, End in the sidebar
KeyNavDown == activeElement = "nav" /\ NavigateNext

KeyNavUp == activeElement = "nav" /\ NavigatePrev

KeyNavHome == activeElement = "nav" /\ NavigateFirst

KeyNavEnd == activeElement = "nav" /\ NavigateLast

\* a handleGlobalKeydown that does not look for the open search modal
KeySWhileOpen ==
    /\ activeElement \notin {"input", "other"}
    /\ FocusSidebar

\* handleGlobalKeydown: 's' while no input is focused and the search modal is not open
KeyS ==
    /\ activeElement \notin {"input", "other"}
    /\ ~modalOpen
    /\ FocusSidebar

\* window.mdashNav.focusSidebar, navigateNext, navigatePrev
ApiFocusSidebar == FocusSidebar

ApiNavigateNext == NavigateNext

ApiNavigatePrev == NavigatePrev

\* collectNavItems(), exposed as window.mdashNav.refresh
CollectNavItems ==
    /\ navItems' = sidebarEls
    /\ navIndexOf' = CollectIndex(sidebarEls, navIndexOf)
    /\ UNCHANGED <<navFrame, activeElement, sidebarEls, currentIndex, collapsed,
                   ariaExpanded, navFocus, listening, mainFocusDue, linkActive>>

Refresh == CollectNavItems

\* the user moves the focus to an element of the sidebar (Tab, click on a link)
NavFocusIn(e) ==
    /\ ~(activeElement = "nav" /\ navFocus = e)
    /\ CanFocus(e, sidebarEls, collapsed, navIndexOf)
    /\ Moved(FocusElement(e, currentIndex, collapsed))

\* the page replaces the content of the sidebar; a focused element that is
\* removed loses the focus
DomChange(els) ==
    /\ els # sidebarEls
    /\ sidebarEls' = els
    /\ activeElement' =
          IF activeElement = "nav" /\ navFocus # SidebarOther /\ ~Attached(navFocus, els)
          THEN "page" ELSE activeElement
    /\ UNCHANGED <<navFrame, navItems, currentIndex, navIndexOf, collapsed, ariaExpanded,
                   navFocus, listening, mainFocusDue, linkActive>>

\* the ids of the sections the scroll spy observes: two that have a link in
\* the sidebar and one that has none
SpySections == {"s1", "s2", "s0"}

\* window.location.hash without its '#' when the script starts ("": no hash)
Hashes == {"", "s1", "s2", "s3", "s0"}

\* sidebar.querySelector(`a[href="#${sectionId}"]`): the first such link of the
\* sidebar in document order, NoElement when there is none
LinkFor(sectionId, els) ==
    LET at == {i \in 1..Len(els) :
                  IsLink(els[i]) /\ NavElements[els[i]].href = "#" \o sectionId}
    IN  IF at = {} THEN NoElement
        ELSE els[CHOOSE i \in at : \A j \in at : i <= j]

\* a highlightNavItem that keeps the highlights that are there
HighlightNavItemKeeps(sectionId, els, c, act) ==
    LET link == LinkFor(sectionId, els) IN
    IF link = NoElement THEN [active |-> act, collapsed |-> c]
    ELSE [active    |-> act \cup {link},
          collapsed |-> IF NavElements[link].group = NoNavGroup THEN c
                        ELSE [c EXCEPT ![NavElements[link].group] = FALSE]]

\* highlightNavItem(sectionId) on the sidebar els, the classes c of the groups
\* and the set act of highlighted elements
HighlightNavItem(sectionId, els, c, act) ==
    LET cleared == {e \in act : ~Attached(e, els)}
        link == LinkFor(sectionId, els)
    IN  IF link = NoElement THEN [active |-> cleared, collapsed |-> c]
        ELSE [active    |-> cleared \cup {link},
              collapsed |-> IF NavElements[link].group = NoNavGroup THEN c
                            ELSE [c EXCEPT ![NavElements[link].group] = FALSE]]

\* the scroll spy: the IntersectionObserver reports the section id as intersecting
SpyIntersect(id) ==
    /\ linkActive' = HighlightNavItem(id, sidebarEls, collapsed, linkActive).active
    /\ collapsed' = HighlightNavItem(id, sidebarEls, collapsed, linkActive).collapsed
    /\ UNCHANGED <<navFrame, activeElement, sidebarEls, navItems, currentIndex, navIndexOf,
                   ariaExpanded, navFocus, listening, mainFocusDue>>

\* highlightCurrentSection() on the classes c the markup gives the groups
HighlightCurrentSection(hash, els, c) ==
    IF hash # "" THEN HighlightNavItem(hash, els, c, {})
    ELSE [active |-> {}, collapsed |-> c]

\* init(): collectNavItems(), bindEvents() and highlightCurrentSection() on the
\* sidebar of the page
NavInit ==
    /\ dom = PageGuide
    /\ searchIndex = BuildSearchIndex(<<>>, dom)
    /\ InitUi
    /\ sidebarEls \in Sidebars
    /\ navItems = sidebarEls
    /\ currentIndex = -1
    /\ navIndexOf = CollectIndex(sidebarEls, [e \in NavIds |-> NoIndex])
    /\ \E c \in [NavGroups -> BOOLEAN], hash \in Hashes :
          /\ collapsed = HighlightCurrentSection(hash, sidebarEls, c).collapsed
          /\ linkActive = HighlightCurrentSection(hash, sidebarEls, c).active
    /\ ariaExpanded = [g \in NavGroups |-> "none"]
    /\ navFocus = SidebarOther
    /\ listening = {e \in NavIds : IsTitle(e) /\ Attached(e, sidebarEls)}
    /\ mainFocusDue = FALSE

NavNext ==
    \/ KeyNavDown
    \/ KeyNavUp
    \/ KeyNavHome
    \/ KeyNavEnd
    \/ KeyNavRight
    \/ KeyNavLeft
    \/ KeyNavEnter
    \/ KeyS
    \/ ApiFocusSidebar
    \/ ApiNavigateNext
    \/ ApiNavigatePrev
    \/ Refresh
    \/ MainFocusTimer
    \/ \E e \in NavIds : ClickTitle(e)
    \/ \E e \in NavIds \cup {SidebarOther} : NavFocusIn(e)
    \/ \E els \in Sidebars : DomChange(els)
    \/ \E id \in SpySections : SpyIntersect(id)
    \/ Open
    \/ KeyEscape
    \/ \E e \in {"input", "other", "page"} : Focus(e)

NavSpec == NavInit /\ [][NavNext]_vars

(***************************************************************************)
(* The widget with a browser that lets time pass and runs a timeout whose  *)
(* delay has passed.                                                       *)
(***************************************************************************)
LiveInputs == {<<>>, <<"i", "n">>, <<"z", "z">>}

LiveInit ==
    /\ dom = PageGuide
    /\ searchIndex = BuildSearchIndex(<<>>, dom)
    /\ InitUi
    /\ NavOff

LiveNext ==
    \/ Reindex
    \/ Open
    \/ KeySlash
    \/ KeyEscape
    \/ BackdropClick
    \/ Close
    \/ \E e \in {"input", "other", "page"} : Focus(e)
    \/ \E v \in LiveInputs : InputEvent(v)
    \/ Tick
    \/ TimerFires
    \/ KeyArrowDown
    \/ KeyArrowUp
    \/ KeyEnter
    \/ \E n \in 1..Len(searchResults.items) : ClickResult(n)

\* a timeout whose delay has passed is pending: TimerFires is enabled
TimerDue == \E t \in timers : t.remaining = 0

\* WF_vars(TimerFires) with its ENABLED written as TimerDue: a timeout that
\* stays due has its callback run
TimerFairness == []<>(~TimerDue) \/ []<><<TimerFires>>_vars

FairSpec == LiveInit /\ [][LiveNext]_vars /\ WF_vars(Tick) /\ TimerFairness

(***************************************************************************)
(* The widget on a page whose texts hold regular-expression and HTML       *)
(* special characters, with queries that hold them too.                    *)
(***************************************************************************)
PageMarkup ==
    [sections |-> <<Section(<<"r", "e">>, <<"a", ".", "b", "*">>,
                            << <<"a", "x", "b">>,
                               <<"A", ".", "b", "*", " ", "a", ".", "b", "*">> >>),
                    Section(<<"a", "m">>, <<"a", "&", "c", " ", "a", "m", "p">>,
                            << <<"(", "a", "<", "c", ")">> >>)>>,
     links    |-> <<Link(<<"#", "r", "e">>, <<"r", "e">>, <<"G">>),
                    Link(<<"#", "x">>, <<"(", "x", ")">>, NoGroup)>>,
     otherIds |-> {<<"x">>}]

MarkupInputs ==
    {<<"a", ".", "b", "*">>, <<"(">>, <<"a", "m", "p">>, <<"&">>, <<"a">>}

MarkupInit ==
    /\ dom = PageMarkup
    /\ searchIndex = BuildSearchIndex(<<>>, dom)
    /\ InitUi
    /\ NavOff

MarkupNext ==
    \/ Reindex
    \/ Open
    \/ KeySlash
    \/ KeyEscape
    \/ BackdropClick
    \/ Close
    \/ \E e \in {"input", "other", "page"} : Focus(e)
    \/ \E v \in MarkupInputs : InputEvent(v)
    \/ Tick
    \/ TimerFires
    \/ KeyArrowDown
    \/ KeyArrowUp
    \/ KeyEnter
    \/ \E n \in 1..Len(searchResults.items) : ClickResult(n)

MarkupSpec == MarkupInit /\ [][MarkupNext]_vars

(***************************************************************************)
(* Vocabulary of the properties, stated without the model's Matches,       *)
(* Filter, Slice and SectionKept.                                          *)
(***************************************************************************)
\* text holds q at some offset, compared case-insensitively
Occurs(text, q) ==
    \E off \in 0..(Len(text) - Len(q)) :
        \A j \in 1..Len(q) : LowerChar(text[off + j]) = q[j]

\* the record at position k of the index contains q in its title or its content
Contains(k, q) ==
    Occurs(searchIndex[k].title, q) \/ Occurs(searchIndex[k].content, q)

Range(seq) == {seq[n] : n \in 1..Len(seq)}

IsBlankText(text) == \A i \in 1..Len(text) : IsWhiteSpace(text[i])

\* the i-th .doc-section has a heading or a text element that is not blank
HasText(i) ==
    \/ dom.sections[i].heading # NoHeading /\ ~IsBlankText(dom.sections[i].heading)
    \/ \E n \in 1..Len(dom.sections[i].texts) : ~IsBlankText(dom.sections[i].texts[n])

\* the positions of the index whose record has this id
RecordsOf(id) == {k \in 1..Len(searchIndex) : searchIndex[k].id = id}

\* the sidebar links whose href begins with '#'
AnchorLinks ==
    {j \in 1..Len(dom.links) :
        dom.links[j].href # NoAttr /\ Len(dom.links[j].href) >= 1
            /\ dom.links[j].href[1] = "#"}

TargetOf(j) == Tail(dom.links[j].href)

\* the first sidebar link with the same target as link j
FirstLinkTo(j) ==
    CHOOSE f \in AnchorLinks :
        TargetOf(f) = TargetOf(j)
            /\ \A g \in AnchorLinks : TargetOf(g) = TargetOf(j) => f <= g

\* the positions of the rendered results that carry the class 'selected'
SelectedSet == {n \in 1..Len(searchResults.items) : searchResults.items[n].selected}

(***************************************************************************)
(* C1.  handleSearch on a query that is non-empty once trimmed and         *)
(* lowercased returns exactly the first 10 (or fewer) records of the index *)
(* whose lowercased title or content contains it: every returned record    *)
(* contains it, and a record containing it is left out only when 10        *)
(* earlier ones were taken.                                                *)
(***************************************************************************)
C1_Post ==
    query # <<>> =>
        /\ query = ToLowerCase(Trim(inputValue))
        /\ \A n \in 1..Len(results) :
                results[n] \in 1..Len(searchIndex) /\ Contains(results[n], query)
        /\ \A k \in 1..Len(searchIndex) :
                Contains(k, query) /\ k \notin Range(results) =>
                    /\ Len(results) = ResultLimit
                    /\ \A n \in 1..Len(results) : results[n] < k
        /\ Cardinality(Range(results)) = Len(results)
        /\ Len(searchResults.items) = Len(results)
        /\ \A n \in 1..Len(results) :
                searchResults.items[n].href = <<"#">> \o searchIndex[results[n]].id

C1_QueryReturnsMatches == [][TimerFires => C1_Post']_vars

C1_Witness ==
    /\ query # <<>>
    /\ runsSinceInput = 1
    /\ \E n \in 1..Len(results) :
            /\ ~Occurs(searchIndex[results[n]].title, query)
            /\ Occurs(searchIndex[results[n]].content, query)
    /\ \E n \in 1..Len(results) : Occurs(searchIndex[results[n]].title, query)
    /\ \E k \in 1..Len(searchIndex) : ~Contains(k, query)

(***************************************************************************)
(* C2.  reindex() with no DOM change leaves the record sequence as it was. *)
(***************************************************************************)
C2_ReindexIdempotent ==
    [][(UNCHANGED uiVars /\ Reindex) => searchIndex' = searchIndex]_vars

(***************************************************************************)
(* C3.  The ids of the records of the index are pairwise distinct.         *)
(***************************************************************************)
C3_IdsDistinct ==
    \A k, m \in 1..Len(searchIndex) : searchIndex[k].id = searchIndex[m].id => k = m

(***************************************************************************)
(* C4.  A query result has at most 10 records and is a subsequence of the  *)
(* index in index order; the matches it drops come after every match it    *)
(* returns.                                                                *)
(***************************************************************************)
C4_Post ==
    /\ Len(results) <= ResultLimit
    /\ Len(searchResults.items) <= ResultLimit
    /\ \A n \in 1..Len(results) : results[n] \in 1..Len(searchIndex)
    /\ \A n, m \in 1..Len(results) : n < m => results[n] < results[m]
    /\ \A k \in 1..Len(searchIndex) :
            query # <<>> /\ Contains(k, query) /\ k \notin Range(results) =>
                \A n \in 1..Len(results) : results[n] < k
    /\ \A n \in 1..Len(searchResults.items) :
            /\ n <= Len(results)
            /\ searchResults.items[n].title = searchIndex[results[n]].title

C4_ResultsCappedInOrder == [][TimerFires => C4_Post']_vars

C4_Witness ==
    /\ Len(results) = ResultLimit
    /\ Len(searchResults.items) = ResultLimit
    /\ \E k \in 1..Len(searchIndex) :
            Contains(k, query) /\ k > results[ResultLimit]

(***************************************************************************)
(* C5.  When the debounced query runs on an input that is empty or only    *)
(* white space, the result list is cleared: no record and no 'No results'  *)
(* message is shown.                                                       *)
(***************************************************************************)
C5_Post ==
    IsBlankText(inputValue) =>
        /\ results = <<>>
        /\ searchResults.kind = "blank"
        /\ searchResults.items = <<>>

C5_BlankQueryRendersNothing == [][TimerFires => C5_Post']_vars

C5_Witness ==
    /\ inputValue # <<>>
    /\ IsBlankText(inputValue)
    /\ runsSinceInput = 1
    /\ searchResults = Blank
    /\ \E k \in 1..Len(searchIndex) : Occurs(searchIndex[k].content, inputValue)

(***************************************************************************)
(* C6.  Debounce: at most one timer is pending; handleSearch runs only     *)
(* once the debounce delay has passed since the latest input event, at     *)
(* most once for a burst of input events, and on the input's text of that  *)
(* moment; until it has run, that one run stays scheduled.                 *)
(***************************************************************************)
\* an input event not yet answered has its one run scheduled, due a full delay after it
C6_Scheduled ==
    /\ burst > 0 /\ runsSinceInput = 0 =>
            \E t \in timers :
                t.id = timeout /\ t.remaining = DebounceDelay - sinceInput
    /\ runsSinceInput > 0 => timers = {}

C6_Step ==
    /\ Cardinality(timers') <= 1
    /\ C6_Scheduled'
    /\ TimerFires =>
            /\ sinceInput = DebounceDelay
            /\ runsSinceInput = 0
            /\ query' = ToLowerCase(Trim(inputValue))
            /\ timers' = {}

C6_Debounce == [][C6_Step]_vars

C6_Witness ==
    /\ burst = 2
    /\ runsSinceInput = 1
    /\ timers = {}
    /\ query # <<>>
    /\ query = ToLowerCase(Trim(inputValue))
    /\ searchResults.kind = "items"

(***************************************************************************)
(* C7.  As claimed: after closeSearch, a timer that was in flight never    *)
(* runs the query.                                                         *)
(***************************************************************************)
C7_NoRunAfterClose == afterClose # "ran"

(***************************************************************************)
(* C7, amended.  closeSearch does not cancel the debounce timer: a step    *)
(* that closes the search leaves the pending timer and the result list as  *)
(* they are (the timer can still fire and render into the hidden list),    *)
(* and every step that opens it blanks the input and the result list.      *)
(***************************************************************************)
C7_Step ==
    /\ isOpen /\ ~isOpen' =>
            /\ timers' = timers
            /\ timeout' = timeout
            /\ searchResults' = searchResults
            /\ inputValue' = inputValue
    /\ ~isOpen /\ isOpen' =>
            /\ timers' = timers
            /\ searchResults' = Blank
            /\ inputValue' = <<>>

C7_CloseKeepsTimer == [][C7_Step]_vars

C7_Witness ==
    /\ afterClose = "ran"
    /\ ~isOpen
    /\ searchResults.kind = "items"
    /\ timers = {}

(***************************************************************************)
(* C8.  Whenever results are rendered, exactly one is selected and its     *)
(* index is within [0, length-1]: rendering selects index 0, ArrowDown at  *)
(* the last and ArrowUp at the first result change nothing, and elsewhere  *)
(* they move the selection by one.                                         *)
(***************************************************************************)
C8_Selected ==
    Len(searchResults.items) > 0 =>
        /\ Cardinality(SelectedSet) = 1
        /\ \A n \in SelectedSet : searchResults.items[n].index = n - 1
        /\ \A n \in SelectedSet : n - 1 >= 0 /\ n - 1 <= Len(searchResults.items) - 1

C8_Step ==
    /\ C8_Selected'
    /\ TimerFires /\ Len(searchResults'.items) > 0 => SelectedSet' = {1}
    /\ KeyArrowDown /\ Len(searchResults.items) \in SelectedSet =>
            searchResults' = searchResults
    /\ KeyArrowUp /\ 1 \in SelectedSet => searchResults' = searchResults
    /\ KeyArrowDown /\ Len(searchResults.items) \notin SelectedSet =>
            SelectedSet' = {n + 1 : n \in SelectedSet}
    /\ KeyArrowUp /\ 1 \notin SelectedSet =>
            SelectedSet' = {n - 1 : n \in SelectedSet}

C8_SelectionInRange == [][C8_Step]_vars

C8_Witness ==
    /\ isOpen
    /\ Len(searchResults.items) = ResultLimit
    /\ SelectedSet = {ResultLimit}

(***************************************************************************)
(* C9.  For each sidebar link whose href begins with '#': when no record   *)
(* has its target id, one record is added with that id, the trimmed link   *)
(* text as title and empty content; when a record has it already, the link *)
(* is skipped and the records present stay as they are.  Such a link-only  *)
(* record is found by a query its title contains.                          *)
(***************************************************************************)
\* a .doc-section with this id is indexed
IndexedSection(id) ==
    \E i \in 1..Len(dom.sections) : dom.sections[i].id = id /\ HasText(i)

C9_Index ==
    \A j \in AnchorLinks :
        /\ RecordsOf(TargetOf(j)) # {}
        /\ IndexedSection(TargetOf(j)) =>
                \A k \in RecordsOf(TargetOf(j)) :
                    \E i \in 1..Len(dom.sections) :
                        /\ dom.sections[i].id = TargetOf(j)
                        /\ HasText(i)
                        /\ searchIndex[k].element = i
                        /\ searchIndex[k].title =
                                IF dom.sections[i].heading = NoHeading THEN <<>>
                                ELSE Trim(dom.sections[i].heading)
        /\ ~IndexedSection(TargetOf(j)) =>
                /\ Cardinality(RecordsOf(TargetOf(j))) = 1
                /\ \A k \in RecordsOf(TargetOf(j)) :
                        /\ searchIndex[k].title = Trim(dom.links[FirstLinkTo(j)].text)
                        /\ searchIndex[k].content = <<>>

C9_Query ==
    \A j \in AnchorLinks : \A k \in RecordsOf(TargetOf(j)) :
        /\ ~IndexedSection(TargetOf(j))
        /\ query # <<>>
        /\ Occurs(Trim(dom.links[FirstLinkTo(j)].text), query)
        /\ Cardinality({m \in 1..(k - 1) : Contains(m, query)}) < ResultLimit
        => k \in Range(results)

C9_Step ==
    /\ (UNCHANGED uiVars /\ Reindex) =>
            /\ C9_Index
            /\ C9_Index'
            /\ SubSeq(searchIndex', 1, Len(searchIndex)) = searchIndex
    /\ TimerFires => C9_Index /\ C9_Query'

C9_SidebarLinks == [][C9_Step]_vars

C9_Witness ==
    /\ dom = PageGuide
    /\ Len(searchIndex) > 3
    /\ query = <<"f", "a", "q">>
    /\ runsSinceInput = 1
    /\ Len(results) = 1
    /\ searchIndex[results[1]].id = <<"f", "a", "q">>
    /\ searchIndex[results[1]].content = <<>>
    /\ Cardinality(RecordsOf(<<"f", "a", "q">>)) = 1

(***************************************************************************)
(* C10.  As claimed: no record of the index has both an empty title and an *)
(* empty content.                                                          *)
(***************************************************************************)
C10_NoEmptyRecord ==
    \A k \in 1..Len(searchIndex) :
        searchIndex[k].title # <<>> \/ searchIndex[k].content # <<>>

(***************************************************************************)
(* C10, amended.  A record built from a content container is kept only if  *)
(* its title or content is non-empty after trimming; a sidebar link's      *)
(* record is kept whatever its text.  So a record with an empty title and  *)
(* an empty content is the record of a sidebar link whose text is blank    *)
(* and whose target no indexed container carries.                          *)
(***************************************************************************)
C10_EmptyOnlyFromLinks ==
    \A k \in 1..Len(searchIndex) :
        searchIndex[k].title = <<>> /\ searchIndex[k].content = <<>> =>
            /\ ~IndexedSection(searchIndex[k].id)
            /\ \E j \in AnchorLinks :
                    /\ TargetOf(j) = searchIndex[k].id
                    /\ IsBlankText(dom.links[FirstLinkTo(j)].text)

C10_Witness ==
    /\ \E k \in 1..Len(searchIndex) :
            searchIndex[k].title = <<>> /\ searchIndex[k].content = <<>>
    /\ \E i \in 1..Len(dom.sections) : ~HasText(i)
    /\ \E k \in 1..Len(searchIndex) : searchIndex[k].content # <<>>

(***************************************************************************)
(* C11.  Building the index, querying, rendering and selecting a record    *)
(* (click or Enter) never raise an error, also for a container with no id  *)
(* and for a sidebar link whose target element does not exist.             *)
(***************************************************************************)
C11_NoError == navigated.outcome # "threw"

(***************************************************************************)
(* C13.  Enter on the selected result, or a click on a result, closes the  *)
(* search and navigates to the id of exactly that record: the href handed  *)
(* to the navigation is '#' + its id, and the page scrolls there (and      *)
(* pushes the href) exactly when an element with that id exists.           *)
(***************************************************************************)
\* some element of the page carries this id
ElementWithId(id) ==
    /\ id # <<>>
    /\ \/ \E i \in 1..Len(dom.sections) : dom.sections[i].id = id
       \/ id \in dom.otherIds

\* after a step that resolved the n-th rendered result
C13_Resolved(n) ==
    /\ ~isOpen'
    /\ ~modalOpen'
    /\ navigated'.href = <<"#">> \o searchIndex[results[n]].id
    /\ navigated'.outcome = "scrolled" <=> ElementWithId(searchIndex[results[n]].id)
    /\ searchIndex' = searchIndex

C13_Step ==
    /\ KeyEnter => \A n \in SelectedSet : C13_Resolved(n)
    /\ \A n \in 1..Len(searchResults.items) : ClickResult(n) => C13_Resolved(n)
    /\ navigated' # navigated =>
            KeyEnter \/ \E n \in 1..Len(searchResults.items) : ClickResult(n)

RECURSIVE TextContent(_)
TextContent(html) ==
    IF html = <<>> THEN <<>>
    ELSE IF Len(html) >= 5 /\ SubSeq(html, 1, 5) = <<"&", "a", "m", "p", ";">>
    THEN <<"&">> \o TextContent(SubSeq(html, 6, Len(html)))
    ELSE IF Len(html) >= 4 /\ SubSeq(html, 1, 4) = <<"&", "l", "t", ";">>
    THEN <<"<">> \o TextContent(SubSeq(html, 5, Len(html)))
    ELSE IF Len(html) >= 4 /\ SubSeq(html, 1, 4) = <<"&", "g", "t", ";">>
    THEN <<">">> \o TextContent(SubSeq(html, 5, Len(html)))
    ELSE <<Head(html)>> \o TextContent(Tail(html))

NoRecordContains(q) == \A k \in 1..Len(searchIndex) : ~Contains(k, q)

C14_Shown ==
    searchResults.kind = "empty" =>
        /\ query # <<>>
        /\ NoRecordContains(query)
        /\ TextContent(searchResults.query) = query
        /\ searchResults.items = <<>>

C14_Step ==
    /\ TimerFires =>
        /\ query' = ToLowerCase(Trim(inputValue))
        /\ searchResults'.kind = "empty" <=> (query' # <<>> /\ NoRecordContains(query'))
    /\ (searchResults'.kind = "empty" /\ searchResults' # searchResults) => TimerFires
    /\ C14_Shown'

C14_EmptyStateIffNoMatch == [][C14_Step]_vars

C14_Witness ==
    /\ isOpen
    /\ searchResults.kind = "empty"
    /\ TextContent(searchResults.query) = <<"z", "z">>
    /\ inputValue = <<"z", "z">>
    /\ Len(searchIndex) > 0

(***************************************************************************)
(* C17.  Only the builder writes the index: openSearch, closeSearch, input *)
(* events, the debounced handleSearch, renderResults, result clicks and    *)
(* the arrow and Enter keys leave searchIndex as it is; a step that        *)
(* changes it is a reindex().                                              *)
(***************************************************************************)
C17_Step ==
    /\ searchIndex' # searchIndex => (UNCHANGED uiVars /\ Reindex)
    /\ uiVars' # uiVars => searchIndex' = searchIndex

C17_IndexWrittenByBuilder == [][C17_Step]_vars

C17_Witness ==
    /\ searchIndex = BuildSearchIndex(<<>>, dom)
    /\ Len(searchIndex) > 0
    /\ navigated.outcome = "scrolled"
    /\ isOpen
    /\ searchResults.kind = "items"
    /\ SelectedSet = {2}
    /\ timers # {}

(***************************************************************************)
(* C20.  Whenever the search is open and no debounce timer is pending, the *)
(* rendered result list is the query result of the current input text      *)
(* against the current index (nothing for an empty input); the selection   *)
(* mark, which the arrow keys move, is left out of the comparison.         *)
(***************************************************************************)
Unselected(items) == [n \in 1..Len(items) |-> [items[n] EXCEPT !.selected = FALSE]]

C20_RenderedIsCurrent ==
    (isOpen /\ timers = {}) =>
        /\ searchResults.kind = HandleSearchRender(searchIndex, inputValue).kind
        /\ Unselected(searchResults.items) =
               Unselected(HandleSearchRender(searchIndex, inputValue).items)

(***************************************************************************)
(* C12.  A query is literal text for matching and for highlighting, also   *)
(* when it holds regular-expression metacharacters such as 'a.b*': the     *)
(* records rendered contain the query itself, the marks of a rendered      *)
(* field are exactly the occurrences of the query itself in the field's    *)
(* escaped text, found from left to right, and a query execution never     *)
(* raises an error.                                                        *)
(***************************************************************************)
\* q starts after the first i characters of text, letter case apart
OccursAt(text, q, i) ==
    /\ i + Len(q) <= Len(text)
    /\ \A j \in 1..Len(q) : LowerChar(text[i + j]) = q[j]

\* text with every occurrence of q, taken from left to right, put between mark tags
RECURSIVE LiteralMarkAll(_, _, _)
LiteralMarkAll(text, q, i) ==
    IF i >= Len(text) THEN <<>>
    ELSE IF OccursAt(text, q, i)
    THEN <<"<mark>">> \o SubSeq(text, i + 1, i + Len(q)) \o <<"</mark>">>
             \o LiteralMarkAll(text, q, i + Len(q))
    ELSE <<text[i + 1]>> \o LiteralMarkAll(text, q, i + 1)

\* the text under the n-th rendered title and excerpt
RenderedRecord(n) == searchIndex[results[n]]

C12_Literal ==
    searchResults.kind = "items" =>
        \A n \in 1..Len(searchResults.items) :
            /\ Contains(results[n], query)
            /\ searchResults.items[n].titleHtml =
                   LiteralMarkAll(EscapeHtml(RenderedRecord(n).title), query, 0)
            /\ searchResults.items[n].excerptHtml =
                   LiteralMarkAll(
                       EscapeHtml(Truncate(RenderedRecord(n).content, ExcerptLimit)),
                       query, 0)

\* the query execution that is due in this state completes: no pattern is rejected
C12_NoError ==
    (\E t \in timers : t.remaining = 0) =>
    /\ HandleSearchRender(searchIndex, inputValue).kind # "error"
    /\ \A k \in 1..Len(searchIndex) :
           HighlightMatch(searchIndex[k].title, ToLowerCase(Trim(inputValue)))
               \notin {SyntaxError, Uncovered}

C12_MetacharactersLiteral == C12_NoError /\ C12_Literal

C12_Witness ==
    /\ query = <<"a", ".", "b", "*">>
    /\ searchResults.kind = "items"
    /\ Len(searchResults.items) = 1
    /\ searchResults.items[1].titleHtml = <<"<mark>", "a", ".", "b", "*", "</mark>">>
    /\ searchResults.items[1].excerptHtml =
           <<"a", "x", "b", " ", "<mark>", "A", ".", "b", "*", "</mark>", " ",
             "<mark>", "a", ".", "b", "*", "</mark>">>

(***************************************************************************)
(* C16.  In every rendered result, the marked text of the title and of the *)
(* excerpt is the first occurrence of the query, letter case apart, in the *)
(* original text of that field: the mark starts and ends where that        *)
(* occurrence does and nothing else is marked; a field without an          *)
(* occurrence carries no mark.                                             *)
(***************************************************************************)
Offsets(text, q) == {i \in 0..Len(text) : OccursAt(text, q, i)}

FirstOffset(text, q) == CHOOSE i \in Offsets(text, q) : \A j \in Offsets(text, q) : i <= j

\* the markup of text with its first occurrence of q marked
FirstMarked(text, q) ==
    IF Offsets(text, q) = {} THEN EscapeHtml(text)
    ELSE EscapeHtml(SubSeq(text, 1, FirstOffset(text, q)))
             \o <<"<mark>">>
             \o EscapeHtml(SubSeq(text, FirstOffset(text, q) + 1,
                                  FirstOffset(text, q) + Len(q)))
             \o <<"</mark>">>
             \o EscapeHtml(SubSeq(text, FirstOffset(text, q) + Len(q) + 1, Len(text)))

C16_FirstOccurrenceMarked ==
    searchResults.kind = "items" =>
        \A n \in 1..Len(searchResults.items) :
            /\ searchResults.items[n].titleHtml = FirstMarked(RenderedRecord(n).title, query)
            /\ RenderedRecord(n).content # <<>> =>
                   searchResults.items[n].excerptHtml =
                       FirstMarked(Truncate(RenderedRecord(n).content, ExcerptLimit), query)

(***************************************************************************)
(* C18.  When the timers of the browser are fair, an input event is        *)
(* eventually followed by a query execution once input events stop         *)
(* arriving: an input event that has not had its execution yet is followed *)
(* either by a further input event or by a run of handleSearch, which      *)
(* evaluates the input text present at that moment.                        *)
(***************************************************************************)
\* an input event has arrived and handleSearch has not run since
C18_Pending == burst > 0 /\ runsSinceInput = 0

\* handleSearch has run since the last input event, on the text present
C18_Ran ==
    /\ runsSinceInput >= 1
    /\ timers = {}
    /\ query = ToLowerCase(Trim(inputValue))

\* an input event has just arrived
C18_InputArrived == sinceInput = 0

C18_InputIsFollowedByRun == C18_Pending ~> (C18_Ran \/ C18_InputArrived)

C18_Witness ==
    /\ burst = 2
    /\ C18_Ran
    /\ inputValue = <<"i", "n">>
    /\ searchResults.kind = "items"

(***************************************************************************)
(* C15.  One press of Enter or Space on a focused nav-group title inside   *)
(* the sidebar toggles that group's collapsed state exactly once, the      *)
(* title's own keydown listener and the sidebar's keydown handler, which   *)
(* receives the same bubbling event, taken together: after the press the   *)
(* group is collapsed if and only if it was not before, and no other group *)
(* has changed.                                                            *)
(***************************************************************************)
C15_Step ==
    (IsTitle(navFocus) /\ Attached(navFocus, sidebarEls) /\ KeyNavEnter) =>
        collapsed' = [collapsed EXCEPT ![NavElements[navFocus].group] = ~@]

C15_EnterTogglesOnce == [][C15_Step]_vars

(***************************************************************************)
(* C19.  In every reachable state of the sidebar navigation, whatever the  *)
(* sequence of navigateNext, navigatePrev, navigateFirst, navigateLast,    *)
(* focusSidebar, collapseCurrentGroup, focus-in events and refresh over a  *)
(* changed (also an empty) sidebar, currentIndex is -1 or a valid index of *)
(* navItems.                                                               *)
(***************************************************************************)
C19_IndexValid ==
    \/ currentIndex = -1
    \/ 0 <= currentIndex /\ currentIndex < Len(navItems)

(***************************************************************************)
(* C21.  Once the title of a nav group has had aria-expanded set by a      *)
(* toggle, an expand or a collapse, the attribute agrees with the state of *)
(* the group in every later state: it is 'true' exactly when the group     *)
(* does not carry the class 'collapsed', whatever the interleaving of      *)
(* toggleNavGroup, expandCurrentGroup, collapseCurrentGroup and the        *)
(* highlighting by the scroll spy or the URL hash.                         *)
(***************************************************************************)
C21_AriaConsistent ==
    \A g \in NavGroups :
        ariaExpanded[g] # "none" => (ariaExpanded[g] = "true" <=> ~collapsed[g])

(***************************************************************************)
(* C22.  At most one link of the sidebar carries the nav-link-active       *)
(* highlight in any reachable state (the statement of the claim).          *)
(***************************************************************************)
Highlighted(els, act) == {e \in act : Attached(e, els)}

C22_AtMostOneActive == Cardinality(Highlighted(sidebarEls, linkActive)) <= 1

(***************************************************************************)
(* C22, as the code has it.  Each highlightNavItem call removes the        *)
(* highlight of every element inside the sidebar and then highlights at    *)
(* most one link, the first link of the sidebar to that section, and none  *)
(* when the sidebar has no such link; the highlight of an element that is  *)
(* outside the sidebar during the call stays on it; and no other step      *)
(* changes a highlight.                                                    *)
(***************************************************************************)
C22_Call(id) ==
    /\ Highlighted(sidebarEls, linkActive') =
          IF LinkFor(id, sidebarEls) = NoElement THEN {} ELSE {LinkFor(id, sidebarEls)}
    /\ \A e \in NavIds : ~Attached(e, sidebarEls) => (e \in linkActive' <=> e \in linkActive)

\* (a call that changes neither a highlight nor a group changes nothing at all)
C22_Step ==
    /\ linkActive' # linkActive => \E id \in SpySections : SpyIntersect(id)
    /\ (linkActive' # linkActive \/ collapsed' # collapsed) =>
           \A id \in SpySections : SpyIntersect(id) => C22_Call(id)

C22_CallLeavesOneHighlight == [][C22_Step]_vars

\* link 2 was highlighted after its group had been collapsed by the user, and a
\* later call moved the highlight to link 4
C22_Witness ==
    /\ Attached(2, sidebarEls)
    /\ Attached(4, sidebarEls)
    /\ ariaExpanded[1] = "false"
    /\ ~collapsed[1]
    /\ linkActive = {4}

(***************************************************************************)
(* C23.  In every reachable state after init the isOpen flag, the class    *)
(* 'open' of the modal and the scroll lock of the body agree: isOpen is    *)
(* true exactly when the modal has the class and the overflow of the body  *)
(* is 'hidden'.  Every openSearch empties the input text and the result    *)
(* list, and an Escape key press changes the state only when isOpen is     *)
(* true.                                                                   *)
(***************************************************************************)
C23_Agree ==
    /\ isOpen <=> modalOpen
    /\ isOpen <=> bodyOverflow = "hidden"

C23_Step ==
    /\ (Open \/ KeySlash) => (isOpen' /\ inputValue' = <<>> /\ searchResults' = Blank)
    /\ KeyEscape => (isOpen /\ ~isOpen')

C23_OpenStateAgrees == []C23_Agree /\ [][C23_Step]_vars

\* the search is open again, with the page scrolled to by a result of an earlier search
C23_Witness ==
    /\ navigated.outcome = "scrolled"
    /\ results # <<>>
    /\ isOpen
    /\ modalOpen
    /\ bodyOverflow = "hidden"
    /\ inputValue = <<>>
    /\ searchResults = Blank

(***************************************************************************)
(* C24.  The global 's' shortcut moves the focus to the sidebar only when  *)
(* no input, textarea or editable element has the focus and the search     *)
(* modal is not open (a press with Meta or Ctrl held is no step at all);   *)
(* while the search modal is open a press of 's' changes neither           *)
(* currentIndex nor the focused item of the sidebar.                       *)
(***************************************************************************)
C24_Step ==
    /\ KeyS => (activeElement \notin {"input", "other"} /\ ~modalOpen /\ ~isOpen)
    /\ (modalOpen /\ KeyS) => UNCHANGED <<currentIndex, navFocus, activeElement>>

C24_ShortcutOnlyOutsideSearch == [][C24_Step]_vars

\* the shortcut has put the focus on the first item, the search being closed
C24_Witness ==
    /\ ~modalOpen
    /\ Len(navItems) > 0
    /\ currentIndex = 0
    /\ activeElement = "nav"
    /\ navFocus = navItems[1]

(***************************************************************************)
(* C25.  collapseCurrentGroup (ArrowLeft or 'h') on an item whose          *)
(* enclosing group is expanded collapses that group and sets currentIndex  *)
(* to the index in navItems of the title of that group; on an item whose   *)
(* group is collapsed already or that has no enclosing group, or when      *)
(* currentIndex designates no item, it leaves the collapsed state of every *)
(* group and currentIndex as they are.                                     *)
(***************************************************************************)
C25_Current == ItemAt(navItems, currentIndex)

C25_InExpandedGroup ==
    /\ C25_Current # NoElement
    /\ NavElements[C25_Current].group # NoNavGroup
    /\ ~collapsed[NavElements[C25_Current].group]

C25_Step ==
    KeyNavLeft =>
        IF C25_InExpandedGroup
        THEN /\ collapsed' = [collapsed EXCEPT ![NavElements[C25_Current].group] = TRUE]
             /\ currentIndex' >= 0
             /\ currentIndex' < Len(navItems)
             /\ NavElements[navItems[currentIndex' + 1]].kind = "title"
             /\ NavElements[navItems[currentIndex' + 1]].group =
                    NavElements[C25_Current].group
        ELSE UNCHANGED <<collapsed, currentIndex>>

C25_CollapseMovesToTitle == [][C25_Step]_vars

\* the second group was collapsed from its link: the index is that of its title
C25_Witness ==
    /\ navItems = <<1, 2, 3, 4, 5>>
    /\ collapsed[2]
    /\ ariaExpanded[2] = "false"
    /\ currentIndex = 2
    /\ activeElement = "nav"
    /\ navFocus = 3
    /\ 4 \in linkActive

====
